---- MODULE Spec2Model ----
(***************************************************************************)
(* Lit-DI: the RootInjector (src/src/root-injector.ts, first class body),  *)
(* the ValueNotifier (src/src/value-notifier.ts) and the ProviderRegistry  *)
(* (src/src/provider-registry.ts) as one state machine.                    *)
(*                                                                         *)
(* Synchronous code (handleRequest, resolve, compute, notifyDependents,    *)
(* invalidateToken, disposeAll, setValue, addCallback) is translated into  *)
(* state-passing operators: each takes the injector state s and returns    *)
(* the state after the call together with the call's result.  One action   *)
(* is one JavaScript job: an event dispatch, a registry.register call, a   *)
(* disposeAll call, the invocation of an un-subscribe handle, or one       *)
(* promise reaction.  Promise reactions of different promises may run in   *)
(* any order; the reactions of one promise run in registration order.      *)
(***************************************************************************)
EXTENDS Integers, Sequences, FiniteSets, TLC

\* ------------------------------------------------------------------ bounds
MaxRequests == 2    \* context-request events dispatched to the host
MaxRegs == 2        \* providerRegistry.register calls after construction
MaxUnsubs == 2      \* invocations of one un-subscribe handle
MaxStack == 7      \* call-stack depth (nested resolve calls) before RangeError
MaxOnDestroys == 4  \* onDestroy calls on the DestroyRef used on its own
MaxDestroys == 3    \* destroy calls on it
MaxOnNews == 3      \* onNew calls on the ProviderRegistry used on its own
MaxRegisters == 2   \* register calls on it
MaxArgs == 2        \* providers passed to one register call

\* ------------------------------------------------------------------ values
\* A JavaScript value as the code sees it: a number, undefined, NaN, a pending
\* promise (n is the index of the computation in comps), or a thrown error.
Num(n) == [tag |-> "num", n |-> n]
Undef == [tag |-> "undef", n |-> 0]
NaN == [tag |-> "nan", n |-> 0]
PromiseOf(id) == [tag |-> "promise", n |-> id]
\* Map.get / Map.has of a key that is not in the map
Absent == [tag |-> "absent", n |-> 0]
Errors ==
    {"RangeError", "MissingProviderDefinition", "missing provider", "dispose failed",
     "injectSync not implemented"}
Throw(e) == [tag |-> e, n |-> 0]
IsThrow(v) == v.tag \in Errors
IsPromise(v) == v.tag = "promise"
\* x !== undefined, for x read with Map.get
Defined(v) == v.tag \notin {"absent", "undef"}
\* v + 1 in JavaScript arithmetic
Plus1(v) == IF v.tag = "num" THEN Num(v.n + 1) ELSE NaN

\* ---------------------------------------------------------------- providers
Tokens == {"dep", "tok", "top"}

\* Provider<T>: fn names what the provider is made of:
\*   "value"      {token, value: k}
\*   "konst"      factory: () => k                       (k may be undefined)
\*   "konstAsync" factory: async () => k
\*   "inc"        factory: async ({inject}) => (await inject(arg)) + 1
\*   "opt"        factory: async ({injectOptional}) => injectOptional(arg)
\*   "sync"       factory: ({injectSync}) => injectSync(arg)
\*   "invalid"    neither value nor factory
\*   "absent"     no provider (Map.get returns undefined)
\* dispose: "none" (no dispose), "ok", or "throws" (dispose raises).
Prov(t, fn, k, deps, arg, d) ==
    [token |-> t, fn |-> fn, k |-> k, deps |-> deps, arg |-> arg, dispose |-> d]
NoProvider == Prov("", "absent", Undef, <<>>, "", "none")
ValueP(t, n) == Prov(t, "value", Num(n), <<>>, "", "none")
Dep(t, optional) == [token |-> t, optional |-> optional]
HasProvider(p) == p.fn # "absent"


\* -------------------------------------------------------------------- state
VARIABLES
    registry,          \* ProviderRegistry.map: token -> provider
    providers,         \* RootInjector.providers
    localTokens,       \* RootInjector.localTokens
    instances,         \* RootInjector.instances: token -> value | promise | Absent
    instOrder,         \* insertion order of the keys of instances (Map iteration order)
    notifiers,         \* RootInjector.notifiers: token -> index into nheap, 0 when absent
    nheap,             \* the ValueNotifier objects ever created: [value, subs]
    dependents,        \* RootInjector.dependents: token -> insertion-ordered set
    dependencies,      \* RootInjector.dependencies: token -> set
    subscriberCounts,  \* RootInjector.subscriberCounts: token -> number | NaN | Absent
    listening,         \* the host still has the 'context-request' listener
    destroyed,         \* times the injector's own DestroyRef.destroy() ran
    comps,             \* the promises created by resolve, in creation order
    reqs,              \* the context-request events dispatched, in dispatch order
    factoryCalls,      \* token -> number of invocations of a factory for it
    disposeLog,        \* token -> the instances handed to provider.dispose, in order
    thrown,            \* the error the last job raised to its caller, or Absent
    regLog,            \* the providers registered after construction, in call order
    disposeCalled,     \* disposeAll has been called
    jobs,              \* the promise reactions (microtasks) run so far
    world,             \* the scenario: what was declared, what registers late
    dref,              \* a DestroyRef used on its own (destroy-ref_test.ts)
    preg               \* a ProviderRegistry used on its own (provider-registry_test.ts)

vars == <<registry, providers, localTokens, instances, instOrder, notifiers, nheap,
          dependents, dependencies, subscriberCounts, listening, destroyed, comps,
          reqs, factoryCalls, disposeLog, thrown, regLog, disposeCalled, jobs,
          world, dref, preg>>
\* the variables of the injector and of the registry it listens to
injector == <<registry, providers, localTokens, instances, instOrder, notifiers, nheap,
              dependents, dependencies, subscriberCounts, listening, destroyed, comps,
              reqs, factoryCalls, disposeLog, thrown, regLog, disposeCalled, jobs,
              world>>

\* The injector's state as one record, threaded through the synchronous calls.
St ==
    [providers |-> providers, instances |-> instances, instOrder |-> instOrder,
     notifiers |-> notifiers, nheap |-> nheap, dependents |-> dependents,
     dependencies |-> dependencies, subscriberCounts |-> subscriberCounts,
     listening |-> listening, destroyed |-> destroyed, comps |-> comps,
     reqs |-> reqs, factoryCalls |-> factoryCalls, disposeLog |-> disposeLog]

Commit(s) ==
    /\ providers' = s.providers
    /\ instances' = s.instances
    /\ instOrder' = s.instOrder
    /\ notifiers' = s.notifiers
    /\ nheap' = s.nheap
    /\ dependents' = s.dependents
    /\ dependencies' = s.dependencies
    /\ subscriberCounts' = s.subscriberCounts
    /\ listening' = s.listening
    /\ destroyed' = s.destroyed
    /\ comps' = s.comps
    /\ reqs' = s.reqs
    /\ factoryCalls' = s.factoryCalls
    /\ disposeLog' = s.disposeLog

\* the result of a synchronous call: the state after it and what it returned or threw
Ret(s, r) == [s |-> s, r |-> r]

\* ------------------------------------------------------------ Map and Set
SeqToSet(q) == {q[i] : i \in 1..Len(q)}
Without(q, x) == SelectSeq(q, LAMBDA y : y # x)
\* Set.add on an insertion-ordered set
SetAdd(q, x) == IF x \in SeqToSet(q) THEN q ELSE Append(q, x)

\* this.instances.set(token, v)
InstSet(s, token, v) ==
    [s EXCEPT !.instances[token] = v, !.instOrder = SetAdd(@, token)]
\* this.instances.delete(token)
InstDelete(s, token) ==
    [s EXCEPT !.instances[token] = Absent, !.instOrder = Without(@, token)]

\* --------------------------------------------------------- ValueNotifier
NewNotifier == [value |-> Undef, subs |-> <<>>]

\* updateObservers: every subscription's callback is invoked with the value; the
\* callbacks are the wrappers of handleRequest, which call the consumer's callback.
RECURSIVE UpdateObservers(_, _, _, _)
UpdateObservers(s, nid, v, i) ==
    IF i > Len(s.nheap[nid].subs) THEN s
    ELSE UpdateObservers(
            [s EXCEPT !.reqs[s.nheap[nid].subs[i]].calls = Append(@, v)], nid, v, i + 1)

\* setValue(v, force)
SetValue(s, nid, v, force) ==
    LET update == force \/ v # s.nheap[nid].value
        s1 == [s EXCEPT !.nheap[nid].value = v]
    IN IF update THEN UpdateObservers(s1, nid, v, 1) ELSE s1

\* addCallback(callback, host, subscribe) for the callback of request r
AddCallback(s, nid, r, subscribe) ==
    IF ~subscribe
    THEN [s EXCEPT !.reqs[r].calls = Append(@, s.nheap[nid].value)]
    ELSE [s EXCEPT !.nheap[nid].subs = SetAdd(@, r),
                   !.reqs[r].calls = Append(@, s.nheap[nid].value),
                   !.reqs[r].handle = TRUE]

\* clearCallbacks()
ClearCallbacks(s, nid) == [s EXCEPT !.nheap[nid].subs = <<>>]

\* ensureNotifier(token): the state after the call; the notifier is s.notifiers[token]
EnsureNotifier(s, token) ==
    IF s.notifiers[token] # 0 THEN s
    ELSE [s EXCEPT !.nheap = Append(@, NewNotifier),
                   !.notifiers[token] = Len(s.nheap) + 1]

\* -------------------------------------------------------- resolve / compute
\* A promise created by resolve (result.then(...), root-injector.ts:103), together
\* with the promise compute returned that it follows:
\*   phase "deps"      Promise.all(depPromises) is pending, the factory has not run
\*   phase "factory"   the factory has run and its promise is pending; aw is what the
\*                     factory awaits: a value, a promise, an error (inject failed),
\*                     or Absent for a factory that awaits nothing of the injector
\*   phase "fulfilled" the then-callback of resolve has run; val is the value
\*   phase "rejected"  the promise is rejected
Comp(token, prov, phase, waits, aw) ==
    [token |-> token, prov |-> prov, phase |-> phase, waits |-> waits, aw |-> aw,
     val |-> Undef]
\* what runFactory returns when the factory returned a promise
Pending == [tag |-> "pending", n |-> 0]

\* (this.subscriberCounts.get(token) ?? 0)
CountOrZero(c) == IF c.tag = "absent" THEN Num(0) ELSE c

\* the injector state after registering the dependency edges of compute's first loop
RECURSIVE AddEdges(_, _, _, _)
AddEdges(s, token, deps, i) ==
    IF i > Len(deps) THEN s
    ELSE AddEdges([s EXCEPT !.dependents[deps[i].token] = SetAdd(@, token)],
                  token, deps, i + 1)

RECURSIVE Resolve(_, _, _, _)
RECURSIVE Compute(_, _, _, _)
RECURSIVE DepLoop(_, _, _, _, _)
RECURSIVE RunFactory(_, _, _, _)
RECURSIVE NotifyLoop(_, _, _, _)

\* notifyDependents(token): the loop runs over the live Set, so a dependent added
\* while it runs is visited too
NotifyDependents(s, token, fuel) == NotifyLoop(s, token, 1, fuel)

\* the loop goes on after this.resolve(dependent, prov) returned res
NotifyRest(res, token, i, fuel) ==
    IF IsThrow(res.r) THEN res ELSE NotifyLoop(res.s, token, i + 1, fuel)

\* the loop body past the count check, for the i-th dependent, already evicted from s
NotifyOne(s, token, i, fuel) ==
    LET dependent == s.dependents[token][i]
    IN IF ~HasProvider(s.providers[dependent]) THEN NotifyLoop(s, token, i + 1, fuel)
       ELSE NotifyRest(Resolve(s, dependent, s.providers[dependent], fuel),
                       token, i, fuel)

NotifyLoop(s, token, i, fuel) ==
    IF i > Len(s.dependents[token]) THEN Ret(s, Undef)
    ELSE IF CountOrZero(s.subscriberCounts[s.dependents[token][i]]) = Num(0)
    THEN NotifyLoop(s, token, i + 1, fuel)
    ELSE NotifyOne(InstDelete(s, s.dependents[token][i]), token, i, fuel)

\* this.instances.set(token, v); this.ensureNotifier(token).setValue(v, true)
Publish(s, token, v) ==
    LET s1 == EnsureNotifier(InstSet(s, token, v), token)
    IN SetValue(s1, s1.notifiers[token], v, TRUE)

\* resolve returns v once notifyDependents returned n
Return(n, v) == IF IsThrow(n.r) THEN n ELSE Ret(n.s, v)

\* resolve, after compute returned c: a promise is stored as it is, a value is
\* stored, pushed into the notifier, and the dependents are notified
Store(c, token, fuel) ==
    IF IsThrow(c.r) THEN c
    ELSE IF IsPromise(c.r) THEN Ret(InstSet(c.s, token, c.r), c.r)
    ELSE Return(NotifyDependents(Publish(c.s, token, c.r), token, fuel), c.r)

\* resolve that takes only a settled value from the cache
ResolveSettledOnly(s, token, provider, fuel) ==
    IF fuel = 0 THEN Ret(s, Throw("RangeError"))
    ELSE IF Defined(s.instances[token]) /\ ~IsPromise(s.instances[token])
    THEN Ret(s, s.instances[token])
    ELSE Store(Compute(s, token, provider, fuel - 1), token, fuel - 1)

\* resolve(token, provider); fuel is the call-stack depth left
Resolve(s, token, provider, fuel) ==
    IF fuel = 0 THEN Ret(s, Throw("RangeError"))
    ELSE IF Defined(s.instances[token]) THEN Ret(s, s.instances[token])
    ELSE Store(Compute(s, token, provider, fuel - 1), token, fuel - 1)

\* what compute's second loop yields: r is a thrown error, or Undef; missing says
\* that the loop returned Promise.reject; waits holds depPromises
Loop(s, r, missing, waits) == [s |-> s, r |-> r, missing |-> missing, waits |-> waits]

\* the loop goes on after this.resolve(dep.token, prov) returned res
DepNext(res, deps, i, waits, fuel) ==
    IF IsThrow(res.r) THEN Loop(res.s, res.r, FALSE, waits)
    ELSE DepLoop(res.s, deps, i + 1,
                 IF IsPromise(res.r) THEN waits \cup {res.r.n} ELSE waits, fuel)

\* the loop with every dep taken as required
DepLoopRequiring(s, deps, i, waits, fuel) ==
    IF i > Len(deps) THEN Loop(s, Undef, FALSE, waits)
    ELSE IF ~HasProvider(s.providers[deps[i].token])
    THEN Loop(s, Undef, TRUE, waits)
    ELSE DepNext(Resolve(s, deps[i].token, s.providers[deps[i].token], fuel),
                 deps, i, waits, fuel)

\* compute's second loop over deps, from the i-th on
DepLoop(s, deps, i, waits, fuel) ==
    IF i > Len(deps) THEN Loop(s, Undef, FALSE, waits)
    ELSE IF ~HasProvider(s.providers[deps[i].token])
    THEN IF ~deps[i].optional THEN Loop(s, Undef, TRUE, waits)
         ELSE DepLoop(s, deps, i + 1, waits, fuel)
    ELSE DepNext(Resolve(s, deps[i].token, s.providers[deps[i].token], fuel),
                 deps, i, waits, fuel)

\* what runFactory yields: r is the value the factory returned, or Pending when it
\* returned a promise; aw is then what the factory awaits
Ran(s, r, aw) == [s |-> s, r |-> r, aw |-> aw]

\* inject(tok) / injectOptional(tok) inside the factory, up to the await: res is
\* what this.resolve returned or threw (an async function turns a throw into a
\* rejection)
Injected(res) == Ran(res.s, Pending, res.r)

\* injectSync(tok) inside the factory
InjectSync(s, tok) == Throw("injectSync not implemented")

\* runFactory(): the factory is invoked
RunFactory(s, token, provider, fuel) ==
    LET s1 == [s EXCEPT !.factoryCalls[token] = @ + 1]
    IN CASE provider.fn = "konst" -> Ran(s1, provider.k, Absent)
         [] provider.fn = "konstAsync" -> Ran(s1, Pending, Absent)
         [] provider.fn = "sync" -> Ran(s1, InjectSync(s1, provider.arg), Absent)
         [] OTHER ->
            IF ~HasProvider(s1.providers[provider.arg])
            THEN Ran(s1, Pending,
                     IF provider.fn = "inc" THEN Throw("missing provider") ELSE Undef)
            ELSE Injected(Resolve(s1, provider.arg, s1.providers[provider.arg], fuel))

\* a promise enters the heap; the call returns it
NewPromise(s, comp) ==
    Ret([s EXCEPT !.comps = Append(@, comp)], PromiseOf(Len(s.comps) + 1))

\* compute's first loop: the dependency edges
Edges(s, token, deps) ==
    [AddEdges(s, token, deps, 1) EXCEPT !.dependencies[token] =
        {deps[i].token : i \in 1..Len(deps)}]

\* compute, after runFactory returned f
AfterFactory(f, token, provider) ==
    IF f.r # Pending THEN Ret(f.s, f.r)
    ELSE NewPromise(f.s, Comp(token, provider, "factory", {}, f.aw))

\* compute without the Promise.reject for a missing required dep
AfterDepsIgnoringMissing(loop, token, provider, fuel) ==
    IF IsThrow(loop.r) THEN Ret(loop.s, loop.r)
    ELSE IF loop.waits # {}
    THEN NewPromise(loop.s, Comp(token, provider, "deps", loop.waits, Absent))
    ELSE AfterFactory(RunFactory(loop.s, token, provider, fuel), token, provider)

\* compute running the factory at once, without Promise.all(depPromises)
AfterDepsEager(loop, token, provider, fuel) ==
    IF IsThrow(loop.r) THEN Ret(loop.s, loop.r)
    ELSE IF loop.missing
    THEN NewPromise(loop.s, Comp(token, provider, "rejected", {}, Absent))
    ELSE AfterFactory(RunFactory(loop.s, token, provider, fuel), token, provider)

\* compute, after its second loop ended as loop
AfterDeps(loop, token, provider, fuel) ==
    IF IsThrow(loop.r) THEN Ret(loop.s, loop.r)
    ELSE IF loop.missing
    THEN NewPromise(loop.s, Comp(token, provider, "rejected", {}, Absent))
    ELSE IF loop.waits # {}
    THEN NewPromise(loop.s, Comp(token, provider, "deps", loop.waits, Absent))
    ELSE AfterFactory(RunFactory(loop.s, token, provider, fuel), token, provider)

\* compute(token, provider)
Compute(s, token, provider, fuel) ==
    IF provider.fn = "value" THEN Ret(s, provider.k)
    ELSE IF provider.fn = "invalid" THEN Ret(s, Throw("MissingProviderDefinition"))
    ELSE AfterDeps(DepLoop(Edges(s, token, provider.deps), provider.deps, 1, {}, fuel),
                   token, provider, fuel)

\* invalidateToken, after this.resolve returned res
NotifyAfter(res, token, fuel) ==
    IF IsThrow(res.r) THEN res ELSE NotifyDependents(res.s, token, fuel)

\* count > 0
Positive(count) == count.tag = "num" /\ count.n > 0

\* invalidateToken(token)
InvalidateToken(s, token, fuel) ==
    IF ~HasProvider(s.providers[token]) THEN Ret(InstDelete(s, token), Undef)
    ELSE IF Positive(CountOrZero(s.subscriberCounts[token]))
    THEN NotifyAfter(Resolve(InstDelete(s, token), token, s.providers[token], fuel),
                     token, fuel)
    ELSE NotifyDependents(InstDelete(s, token), token, fuel)

\* ------------------------------------------------------------ handleRequest
\* a dispatched context-request event and what became of it:
\*   "ignored"  no provider: the handler returned before stopPropagation
\*   "threw"    resolve raised: the handler ended with that error
\*   "waiting"  result.then(add) is registered on promise wait
\*   "added"    add() has run
\* calls are the values the callback was invoked with, handle whether it was given an
\* un-subscribe handle, unsubs how often the consumer invoked it, and since the
\* number of late registrations there had been when add() ran.
Req(token, subscribe, notifier, wait, state) ==
    [token |-> token, subscribe |-> subscribe, notifier |-> notifier, wait |-> wait,
     state |-> state, calls |-> <<>>, handle |-> FALSE, unsubs |-> 0, since |-> 0]

\* (this.subscriberCounts.get(token) ?? 0) + 1
CountUp(c) == IF c.tag = "nan" THEN NaN ELSE Num(CountOrZero(c).n + 1)

\* the closure add of handleRequest, for request r
Add(s, r) ==
    LET q == s.reqs[r]
        s1 == IF q.subscribe
              THEN [s EXCEPT !.subscriberCounts[q.token] = CountUp(@)]
              ELSE s
    IN [AddCallback(s1, q.notifier, r, q.subscribe) EXCEPT !.reqs[r].state = "added",
                                                           !.reqs[r].since = Len(regLog)]

\* the closure dispose handed to a subscribing callback, for request r
Dispose(s, r) ==
    LET q == s.reqs[r]
        s1 == [s EXCEPT !.nheap[q.notifier].subs = Without(@, r),
                        !.reqs[r].unsubs = @ + 1]
        old == s.subscriberCounts[q.token]
        \* this.subscriberCounts.get(token)! - 1
        count == IF old.tag = "num" THEN Num(old.n - 1) ELSE NaN
    IN IF count.tag = "num" /\ count.n <= 0
       THEN [s1 EXCEPT !.subscriberCounts[q.token] = Absent]
       ELSE [s1 EXCEPT !.subscriberCounts[q.token] = count]

\* handleRequest, after this.resolve returned res
Answer(res, token, subscribe) ==
    IF IsThrow(res.r)
    THEN Ret([res.s EXCEPT !.reqs = Append(@, Req(token, subscribe, 0, 0, "threw"))],
             res.r)
    ELSE LET s1 == EnsureNotifier(res.s, token)
             nid == s1.notifiers[token]
         IN IF IsPromise(res.r)
            THEN Ret([s1 EXCEPT !.reqs =
                         Append(@, Req(token, subscribe, nid, res.r.n, "waiting"))],
                     Undef)
            ELSE Ret(Add([s1 EXCEPT !.reqs =
                             Append(@, Req(token, subscribe, nid, 0, "waiting"))],
                         Len(s1.reqs) + 1),
                     Undef)

\* handleRequest without the early return for a token without provider
HandleRequestClaiming(s, token, subscribe) ==
    IF ~HasProvider(s.providers[token])
    THEN Answer(Ret(s, Undef), token, subscribe)
    ELSE Answer(Resolve(s, token, s.providers[token], MaxStack), token, subscribe)

\* handleRequest(event) for an event {context: token, subscribe}
HandleRequest(s, token, subscribe) ==
    IF ~HasProvider(s.providers[token])
    THEN Ret([s EXCEPT !.reqs = Append(@, Req(token, subscribe, 0, 0, "ignored"))],
             Undef)
    ELSE Answer(Resolve(s, token, s.providers[token], MaxStack), token, subscribe)

\* promise id settles once notifyDependents returned n: when it raised, the promise
\* is rejected with that error
Settled(n, id, v) ==
    IF IsThrow(n.r) THEN [n.s EXCEPT !.comps[id].phase = "rejected"]
    ELSE [n.s EXCEPT !.comps[id].phase = "fulfilled", !.comps[id].val = v]

\* the callback resolve gives to result.then, for promise id and the value v
ThenCallback(s, id, v) ==
    Settled(NotifyDependents(Publish(s, s.comps[id].token, v), s.comps[id].token,
                             MaxStack),
            id, v)

\* ------------------------------------------------------------- disposeAll
RECURSIVE DisposeLoop(_, _, _)
\* the loop over this.instances, in the Map's order
DisposeLoop(s, order, i) ==
    IF i > Len(order) THEN Ret(s, Undef)
    ELSE LET token == order[i]
             provider == s.providers[token]
         IN IF ~HasProvider(provider) \/ provider.dispose = "none"
            THEN DisposeLoop(s, order, i + 1)
            ELSE LET s1 == [s EXCEPT !.disposeLog[token] =
                                Append(@, s.instances[token])]
                 IN IF provider.dispose = "throws"
                    THEN Ret(s1, Throw("dispose failed"))
                    ELSE DisposeLoop(s1, order, i + 1)

RECURSIVE ClearAll(_, _)
\* notifier.clearCallbacks() for every notifier of this.notifiers
ClearAll(s, toks) ==
    IF toks = {} THEN s
    ELSE LET t == CHOOSE x \in toks : TRUE
         IN ClearAll(IF s.notifiers[t] = 0 THEN s ELSE ClearCallbacks(s, s.notifiers[t]),
                     toks \ {t})

\* disposeAll, after its loop over this.instances ended as d
Teardown(d) ==
    IF IsThrow(d.r) THEN d
       ELSE Ret([ClearAll(d.s, Tokens) EXCEPT
                    !.instances = [t \in Tokens |-> Absent],
                    !.instOrder = <<>>,
                    !.notifiers = [t \in Tokens |-> 0],
                    !.dependents = [t \in Tokens |-> <<>>],
                    !.dependencies = [t \in Tokens |-> {}],
                    !.listening = FALSE,
                    !.destroyed = @ + 1], Undef)

\* disposeAll()
DisposeAllOp(s) == Teardown(DisposeLoop(s, s.instOrder, 1))

\* ------------------------------------------------ providerRegistry.onNew
\* the listener without the check of this.localTokens
OnNewOverLocal(s, p) ==
    InvalidateToken(EnsureNotifier([s EXCEPT !.providers[p.token] = p], p.token),
                    p.token, MaxStack)

\* the listener the constructor registers, called with provider p
OnNew(s, p) ==
    IF p.token \in localTokens THEN Ret(s, Undef)
    ELSE InvalidateToken(EnsureNotifier([s EXCEPT !.providers[p.token] = p], p.token),
                         p.token, MaxStack)

\* ------------------------------------------------------------- DestroyRef
\* The callbacks handed to onDestroy: 1 and 2 do nothing else; 3 registers
\* callback 1 on the same DestroyRef while it runs.
CbIds == {1, 2, 3}
\* new DestroyRef(): callbacks is the Set in insertion order; runs counts the
\* invocations of each callback, adds the times onDestroy put it into the Set.
NewDestroyRef ==
    [callbacks |-> <<>>, runs |-> [c \in CbIds |-> 0], adds |-> [c \in CbIds |-> 0],
     onDestroys |-> 0, destroys |-> 0]

\* onDestroy(cb)
OnDestroy(d, cb) ==
    IF cb \in SeqToSet(d.callbacks) THEN d
    ELSE [d EXCEPT !.callbacks = Append(@, cb), !.adds[cb] = @ + 1]

\* cb(): the callback runs
RunCallback(d, cb) ==
    IF cb = 3 THEN OnDestroy([d EXCEPT !.runs[cb] = @ + 1], 1)
    ELSE [d EXCEPT !.runs[cb] = @ + 1]

RECURSIVE DestroyLoop(_, _)
\* for (const cb of this.callbacks) cb(), from the i-th on; a Set's iteration
\* reaches the elements added while it runs
DestroyLoop(d, i) ==
    IF i > Len(d.callbacks) THEN d
    ELSE DestroyLoop(RunCallback(d, d.callbacks[i]), i + 1)

\* destroy() that leaves the Set as it is
DestroyKeeping(d) == DestroyLoop(d, 1)

\* destroy()
Destroy(d) == [DestroyLoop(d, 1) EXCEPT !.callbacks = <<>>]

\* ------------------------------------------------------- ProviderRegistry
ListenerIds == {1, 2}
\* new ProviderRegistry(): map, listeners in insertion order; heard logs every
\* invocation of a listener, args is the argument list of the last register call
NewRegistry ==
    [map |-> [t \in Tokens |-> NoProvider], listeners |-> <<>>, heard |-> <<>>,
     args |-> <<>>, onNews |-> 0, registers |-> 0]

\* onNew(cb)
RegistryOnNew(g, cb) ==
    IF cb \in SeqToSet(g.listeners) THEN g
    ELSE [g EXCEPT !.listeners = Append(@, cb)]

RECURSIVE NotifyListeners(_, _, _)
\* for (const cb of this.listeners) cb(provider), from the j-th on
NotifyListeners(g, provider, j) ==
    IF j > Len(g.listeners) THEN g
    ELSE NotifyListeners([g EXCEPT !.heard =
                             Append(@, [listener |-> g.listeners[j],
                                        provider |-> provider])],
                         provider, j + 1)

RECURSIVE RegistryRegister(_, _, _)
\* register that tells the listeners of first registrations only
RegisterQuietOverwrite(g, ps, i) ==
    IF i > Len(ps) THEN g
    ELSE IF HasProvider(g.map[ps[i].token])
    THEN RegistryRegister([g EXCEPT !.map[ps[i].token] = ps[i]], ps, i + 1)
    ELSE RegistryRegister(
             NotifyListeners([g EXCEPT !.map[ps[i].token] = ps[i]], ps[i], 1),
             ps, i + 1)

\* register(...providers), from the i-th provider on
RegistryRegister(g, ps, i) ==
    IF i > Len(ps) THEN g
    ELSE RegistryRegister(
             NotifyListeners([g EXCEPT !.map[ps[i].token] = ps[i]], ps[i], 1),
             ps, i + 1)

\* ---------------------------------------------------------------- scenarios
\* What the application declares: the providers registered before the injector is
\* constructed, the providers handed to the constructor, the providers that
\* libraries register afterwards, and the tokens its consumers request.
NoProviders == [t \in Tokens |-> NoProvider]
World(name, reg, local, late, asks) ==
    [name |-> name, registry |-> reg, local |-> local, late |-> late, asks |-> asks]

\* tok = factory(deps: [dep]) => (await inject(dep)) + 1
IncP(t, d, optional, disp) == Prov(t, "inc", Undef, <<Dep(d, optional)>>, d, disp)
\* tok = factory(deps: [dep]) => injectOptional(dep)
OptP(t, d, optional, disp) == Prov(t, "opt", Undef, <<Dep(d, optional)>>, d, disp)
\* tok = factory: () => k, or async () => k
\* tok = factory(deps) => injectSync(d)
SyncP(t, deps, d) == Prov(t, "sync", Undef, deps, d, "none")
KonstP(t, fn, k, disp) == Prov(t, fn, k, <<>>, "", disp)
WithDispose(p) == [p EXCEPT !.dispose = "ok"]

Worlds ==
    { \* root-injector_test.ts 'caches factory result', 'disposeAll calls provider dispose'
      World("cache",
            [NoProviders EXCEPT !["tok"] = KonstP("tok", "konst", Num(7), "ok"),
                                !["dep"] = WithDispose(ValueP("dep", 1))],
            NoProviders, {KonstP("tok", "konst", Num(8), "ok")}, {"tok", "dep", "top"}),
      \* an asynchronous factory, and one that returns undefined
      World("async",
            [NoProviders EXCEPT !["tok"] = KonstP("tok", "konstAsync", Num(7), "ok"),
                                !["dep"] = KonstP("dep", "konst", Undef, "none")],
            NoProviders, {ValueP("tok", 9)}, {"tok", "dep"}),
      \* 'registry onNew does not override constructor provider'
      World("local",
            [NoProviders EXCEPT !["tok"] = ValueP("tok", 8)],
            [NoProviders EXCEPT !["tok"] = ValueP("tok", 5)],
            {ValueP("tok", 9), ValueP("dep", 1)}, {"tok", "dep"}),
      \* 'inject resolves declared dependency', 'dep update reruns factory for subscribers'
      World("reactive",
            [NoProviders EXCEPT !["dep"] = ValueP("dep", 1)],
            [NoProviders EXCEPT !["tok"] = IncP("tok", "dep", FALSE, "ok")],
            {ValueP("dep", 3)}, {"tok", "dep"}),
      \* 'required dep missing rejects', and a token that depends on the failing one
      World("required", NoProviders,
            [NoProviders EXCEPT !["tok"] = IncP("tok", "dep", FALSE, "ok"),
                                !["top"] = IncP("top", "tok", FALSE, "none")],
            {ValueP("dep", 1)}, {"tok", "top"}),
      \* 'optional dep missing returns undefined'
      World("optional", NoProviders,
            [NoProviders EXCEPT !["tok"] = OptP("tok", "dep", TRUE, "ok")],
            {ValueP("dep", 1)}, {"tok"}),
      \* feature.md P8: circular provider A -> B -> A
      World("cycle", NoProviders,
            [NoProviders EXCEPT !["tok"] = IncP("tok", "dep", FALSE, "none"),
                                !["dep"] = IncP("dep", "tok", FALSE, "none")],
            {ValueP("top", 1)}, {"tok", "dep"}),
      \* a chain top -> tok -> dep over an asynchronous dep
      World("chain",
            [NoProviders EXCEPT !["dep"] = KonstP("dep", "konstAsync", Num(1), "ok")],
            [NoProviders EXCEPT !["tok"] = IncP("tok", "dep", FALSE, "ok"),
                                !["top"] = IncP("top", "tok", FALSE, "none")],
            {ValueP("dep", 3)}, {"top"}),
      \* factories that read a declared and an undeclared token with injectSync
      World("sync",
            [NoProviders EXCEPT !["dep"] = ValueP("dep", 1)],
            [NoProviders EXCEPT !["tok"] = SyncP("tok", <<Dep("dep", FALSE)>>, "dep"),
                                !["top"] = SyncP("top", <<>>, "dep")],
            {ValueP("dep", 3)}, {"dep", "tok", "top"}),
      \* a registry factory that a late registration replaces by a factory over
      \* another dep, or by a constant
      World("rewire",
            [NoProviders EXCEPT !["dep"] = ValueP("dep", 1),
                                !["top"] = ValueP("top", 2),
                                !["tok"] = IncP("tok", "dep", FALSE, "none")],
            NoProviders, {IncP("tok", "top", FALSE, "none"), ValueP("tok", 5)}, {"tok"}),
      \* a provider whose dispose callback raises
      World("faulty",
            [NoProviders EXCEPT !["tok"] = KonstP("tok", "konst", Num(7), "ok"),
                                !["dep"] = Prov("dep", "value", Num(1), <<>>, "", "throws")],
            NoProviders, {ValueP("top", 1)}, {"tok", "dep"}) }

\* the constructor's provider table: registry entries, then the local providers
Constructed(w) ==
    [t \in Tokens |-> IF HasProvider(w.local[t]) THEN w.local[t] ELSE w.registry[t]]

\* the notifiers the constructor creates, one per token with a provider
TokenOrder == <<"dep", "tok", "top">>
RECURSIVE InitNotifiers(_, _, _)
InitNotifiers(s, ps, i) ==
    IF i > Len(TokenOrder) THEN s
    ELSE InitNotifiers(IF HasProvider(ps[TokenOrder[i]])
                       THEN EnsureNotifier(s, TokenOrder[i]) ELSE s, ps, i + 1)

Init ==
    \E w \in Worlds :
        /\ world = w
        /\ registry = w.registry
        /\ providers = Constructed(w)
        /\ localTokens = {t \in Tokens : HasProvider(w.local[t])}
        /\ LET n == InitNotifiers([notifiers |-> [t \in Tokens |-> 0], nheap |-> <<>>],
                                  Constructed(w), 1)
           IN notifiers = n.notifiers /\ nheap = n.nheap
        /\ instances = [t \in Tokens |-> Absent]
        /\ instOrder = <<>>
        /\ dependents = [t \in Tokens |-> <<>>]
        /\ dependencies = [t \in Tokens |-> {}]
        /\ subscriberCounts = [t \in Tokens |-> Absent]
        /\ listening = TRUE
        /\ destroyed = 0
        /\ comps = <<>>
        /\ reqs = <<>>
        /\ factoryCalls = [t \in Tokens |-> 0]
        /\ disposeLog = [t \in Tokens |-> <<>>]
        /\ thrown = Absent
        /\ regLog = <<>>
        /\ jobs = 0
        /\ disposeCalled = FALSE
        /\ dref = NewDestroyRef
        /\ preg = NewRegistry

\* ------------------------------------------------------------------ actions
\* The reactions of one promise are consecutive microtasks: once the first add of a
\* fulfilled promise has run, the others run before any other job.  (A consumer's
\* callback may invoke its un-subscribe handle at once, so Unsubscribe is exempt.)
Draining ==
    \E r1, r2 \in 1..Len(reqs) :
        /\ reqs[r1].wait # 0
        /\ reqs[r1].wait = reqs[r2].wait
        /\ reqs[r1].state = "added"
        /\ reqs[r2].state = "waiting"

\* a job ends: the state it left, and the error it raised to its caller, if any
Finish(res) ==
    /\ Commit(res.s)
    /\ UNCHANGED <<dref, preg>>
    /\ thrown' = IF IsThrow(res.r) THEN res.r ELSE Absent

\* host.dispatchEvent(new ContextEvent(token, host, callback, subscribe))
Request(token, subscribe) ==
    /\ ~Draining
    /\ listening
    /\ token \in world.asks
    /\ Len(reqs) < MaxRequests
    /\ Finish(HandleRequest(St, token, subscribe))
    /\ jobs' = jobs
    /\ UNCHANGED <<registry, localTokens, regLog, disposeCalled, world>>

\* providerRegistry.register(p), after the injector was constructed
Register(p) ==
    /\ ~Draining
    /\ Len(regLog) < MaxRegs
    /\ p \in world.late
    /\ registry' = [registry EXCEPT ![p.token] = p]
    /\ regLog' = Append(regLog, p)
    /\ Finish(OnNew(St, p))
    /\ jobs' = jobs
    /\ UNCHANGED <<localTokens, disposeCalled, world>>

\* the consumer invokes the un-subscribe handle its callback was given
Unsubscribe(r) ==
    /\ reqs[r].handle
    /\ reqs[r].unsubs < MaxUnsubs
    /\ Finish(Ret(Dispose(St, r), Undef))
    /\ jobs' = jobs
    /\ UNCHANGED <<registry, localTokens, regLog, disposeCalled, world>>

\* injector.disposeAll(); callers call it once (spec 4.2, Disposal)
DisposeAll ==
    /\ ~Draining
    /\ ~disposeCalled
    /\ disposeCalled' = TRUE
    /\ Finish(DisposeAllOp(St))
    /\ jobs' = jobs
    /\ UNCHANGED <<registry, localTokens, regLog, world>>

\* requests whose add is registered on promise id and has not run
Waiting(id) == {r \in 1..Len(reqs) : reqs[r].state = "waiting" /\ reqs[r].wait = id}
Fulfilled(id) == comps[id].phase = "fulfilled"
Rejected(id) == comps[id].phase = "rejected"

\* result.then(add): the reaction of request r runs
CanDeliver(r) ==
    /\ reqs[r].state = "waiting"
    /\ reqs[r].wait # 0
    /\ Fulfilled(reqs[r].wait)
    /\ \A q \in Waiting(reqs[r].wait) : q >= r
Deliver(r) ==
    /\ CanDeliver(r)
    /\ Finish(Ret(Add(St, r), Undef))
    /\ jobs' = jobs + 1
    /\ UNCHANGED <<registry, localTokens, regLog, disposeCalled, world>>

\* promise id, after runFactory returned f in the then-callback of Promise.all
AfterAll(f, id) ==
    IF IsThrow(f.r) THEN [f.s EXCEPT !.comps[id].phase = "rejected"]
    ELSE IF f.r = Pending
    THEN [f.s EXCEPT !.comps[id].phase = "factory", !.comps[id].aw = f.aw]
    ELSE ThenCallback(f.s, id, f.r)

\* Promise.all(depPromises).then(() => runFactory()) of promise id runs
CanDepsReady(id) ==
    /\ ~Draining
    /\ comps[id].phase = "deps"
    /\ \A d \in comps[id].waits : Fulfilled(d) /\ Waiting(d) = {}
DepsReady(id) ==
    /\ CanDepsReady(id)
    /\ Finish(Ret(AfterAll(RunFactory(St, comps[id].token, comps[id].prov, MaxStack),
                           id), Undef))
    /\ jobs' = jobs + 1
    /\ UNCHANGED <<registry, localTokens, regLog, disposeCalled, world>>

\* the value an awaiting factory reads
Awaited(aw) == IF IsPromise(aw) THEN comps[aw.n].val ELSE aw
\* the value the factory of provider p returns once what it awaits is there
FactoryValue(p, aw) ==
    CASE p.fn = "konstAsync" -> p.k
      [] p.fn = "inc" -> Plus1(Awaited(aw))
      [] OTHER -> Awaited(aw)

\* the factory's promise of promise id is fulfilled and resolve's then-callback runs
CanSettle(id) ==
    /\ ~Draining
    /\ comps[id].phase = "factory"
    /\ ~IsThrow(comps[id].aw)
    /\ IsPromise(comps[id].aw) =>
          Fulfilled(comps[id].aw.n) /\ Waiting(comps[id].aw.n) = {}
Settle(id) ==
    /\ CanSettle(id)
    /\ Finish(Ret(ThenCallback(St, id, FactoryValue(comps[id].prov, comps[id].aw)),
                  Undef))
    /\ jobs' = jobs + 1
    /\ UNCHANGED <<registry, localTokens, regLog, disposeCalled, world>>

\* promise id is rejected: a dependency it waits for was rejected, or inject failed
CanReject(id) ==
    \/ /\ comps[id].phase = "deps"
       /\ \E d \in comps[id].waits : Rejected(d)
    \/ /\ comps[id].phase = "factory"
       /\ \/ IsThrow(comps[id].aw)
          \/ IsPromise(comps[id].aw) /\ Rejected(comps[id].aw.n)
Reject(id) ==
    /\ CanReject(id)
    /\ jobs' = jobs + 1
    /\ comps' = [comps EXCEPT ![id].phase = "rejected"]
    /\ thrown' = Absent
    /\ UNCHANGED <<registry, providers, localTokens, instances, instOrder, notifiers,
                   nheap, dependents, dependencies, subscriberCounts, listening,
                   destroyed, reqs, factoryCalls, disposeLog, regLog, disposeCalled,
                   world, dref, preg>>

Next ==
    \/ \E t \in Tokens, sub \in BOOLEAN : Request(t, sub)
    \/ \E p \in world.late : Register(p)
    \/ \E r \in 1..Len(reqs) : Unsubscribe(r)
    \/ DisposeAll
    \/ \E r \in 1..Len(reqs) : Deliver(r)
    \/ \E id \in 1..Len(comps) : DepsReady(id)
    \/ \E id \in 1..Len(comps) : Settle(id)
    \/ \E id \in 1..Len(comps) : Reject(id)

Spec == Init /\ [][Next]_vars

\* The event loop runs every job that is ready: a promise reaction that can run
\* does run.  Dispatching, registering, un-subscribing and disposing are up to the
\* application and carry no fairness.  JobReady is the enabling condition of the
\* four promise-reaction actions of Next, and they are the steps that count in jobs.
JobReady ==
    \/ \E r \in 1..Len(reqs) : CanDeliver(r)
    \/ \E id \in 1..Len(comps) : CanDepsReady(id) \/ CanSettle(id) \/ CanReject(id)
Job == JobReady /\ jobs' = jobs + 1
FairSpec == Spec /\ WF_jobs(Job)

\* ---------------------------------------------- the small classes on their own
\* The injector constructed and left alone.
Idle == Init /\ world.name = "cache"

\* A DestroyRef with callbacks registered and destroy() called in any order.
RegisterCallback(cb) ==
    /\ dref.onDestroys < MaxOnDestroys
    /\ dref' = [OnDestroy(dref, cb) EXCEPT !.onDestroys = @ + 1]
    /\ UNCHANGED <<injector, preg>>

CallDestroy ==
    /\ dref.destroys < MaxDestroys
    /\ dref' = [Destroy(dref) EXCEPT !.destroys = @ + 1]
    /\ UNCHANGED <<injector, preg>>

DestroyNext ==
    \/ \E cb \in CbIds : RegisterCallback(cb)
    \/ CallDestroy

DestroySpec == Idle /\ [][DestroyNext]_vars

\* A ProviderRegistry with listeners added and register called with one or more
\* providers, in any order.
RegistryProviders == {ValueP(t, n) : t \in {"dep", "tok"}, n \in {1, 2}}
ArgLists == UNION {[1..k -> RegistryProviders] : k \in 1..MaxArgs}

AddListener(cb) ==
    /\ preg.onNews < MaxOnNews
    /\ preg' = [RegistryOnNew(preg, cb) EXCEPT !.onNews = @ + 1]
    /\ UNCHANGED <<injector, dref>>

CallRegister(ps) ==
    /\ preg.registers < MaxRegisters
    /\ preg' = [RegistryRegister(preg, ps, 1) EXCEPT
                   !.registers = @ + 1, !.args = ps]
    /\ UNCHANGED <<injector, dref>>

RegistryNext ==
    \/ \E cb \in ListenerIds : AddListener(cb)
    \/ \E ps \in ArgLists : CallRegister(ps)

RegistrySpec == Idle /\ [][RegistryNext]_vars

\* ------------------------------------------------------------------- claims
\* the newest request, and whether this step dispatched it
Last(q) == q[Len(q)]
Dispatched == Len(reqs') = Len(reqs) + 1
InFlight(t) ==
    IsPromise(instances[t]) /\ comps[instances[t].n].phase \in {"deps", "factory"}
IsFactory(p) == p.fn \in {"konst", "konstAsync", "inc", "opt"}
FirstCall(r) == reqs[r].calls[1]

\* C1 (single-flight): a request for a token whose computation is in flight invokes
\* no factory and starts no computation: it waits on the promise in the cache; and
\* the requests that waited on one promise are delivered the same value.
SameDelivery ==
    \A r1, r2 \in 1..Len(reqs) :
        /\ reqs[r1].wait # 0
        /\ reqs[r1].wait = reqs[r2].wait
        /\ reqs[r1].state = "added"
        /\ reqs[r2].state = "added"
        => FirstCall(r1) = FirstCall(r2)
C1_SingleFlight ==
    [][/\ \A t \in Tokens :
            InFlight(t) /\ Dispatched /\ Last(reqs').token = t
            => /\ factoryCalls' = factoryCalls
               /\ comps' = comps
               /\ instances' = instances
               /\ Last(reqs').state = "waiting"
               /\ Last(reqs').wait = instances[t].n
       /\ SameDelivery']_vars
C1_Witness ==
    \E r1, r2 \in 1..Len(reqs) :
        /\ r1 < r2
        /\ reqs[r1].wait # 0
        /\ reqs[r1].wait = reqs[r2].wait
        /\ reqs[r1].state = "added"
        /\ reqs[r2].state = "added"
        /\ IsFactory(comps[reqs[r1].wait].prov)
        /\ factoryCalls[reqs[r1].token] = 1
        /\ FirstCall(r1) = comps[reqs[r1].wait].val

\* the cache holds a settled entry for t (a Map entry that is no promise)
Cached(t) == t \in SeqToSet(instOrder) /\ ~IsPromise(instances[t])

\* C2 (cache correctness): a request for a token whose resolution has settled, with
\* its entry still in the cache, is answered with the cached value, whatever that
\* value is (undefined included), and invokes no factory.
C2_CacheCorrect ==
    [][\A t \in Tokens :
            Cached(t) /\ Dispatched /\ Last(reqs').token = t
            => /\ factoryCalls' = factoryCalls
               /\ instances' = instances
               /\ Last(reqs').calls = <<instances[t]>>]_vars

\* this step is a providerRegistry.register call
Registering == Len(regLog') = Len(regLog) + 1

\* C3 (local over registry): a token of the constructor's provider list keeps its
\* local provider; a registration for it changes nothing in the injector; and
\* every delivery for a local constant is the local value.
LocalKept == \A t \in localTokens : providers[t] = world.local[t]
LocalDelivered ==
    \A r \in 1..Len(reqs) :
        reqs[r].token \in localTokens /\ world.local[reqs[r].token].fn = "value"
        => /\ reqs[r].state = "added"
           /\ \A i \in 1..Len(reqs[r].calls) :
                  reqs[r].calls[i] = world.local[reqs[r].token].k
C3_LocalPrecedence ==
    [][/\ Registering /\ Last(regLog').token \in localTokens
          => UNCHANGED <<providers, instances, instOrder, notifiers, nheap, dependents,
                         dependencies, subscriberCounts, comps, reqs, factoryCalls>>
       /\ LocalKept'
       /\ LocalDelivered']_vars
C3_Witness ==
    /\ \E i \in 1..Len(regLog) : regLog[i].token \in localTokens
    /\ \E t \in localTokens : HasProvider(world.registry[t])
    /\ \E r \in 1..Len(reqs) :
          /\ reqs[r].token \in localTokens
          /\ world.local[reqs[r].token].fn = "value"
          /\ registry[reqs[r].token] # world.registry[reqs[r].token]
          /\ reqs[r].calls = <<world.local[reqs[r].token].k>>

\* request r is a standing subscription: its add has run, the consumer has not
\* invoked the handle, and the injector has not been disposed
Subscribed(r) ==
    /\ r <= Len(reqs)
    /\ reqs[r].subscribe
    /\ reqs[r].state = "added"
    /\ reqs[r].unsubs = 0
    /\ ~disposeCalled
\* token t is made by a factory from a registry token whose newest registration is
\* the latest register call, made when r was subscribed
DepRegistered(r, t) ==
    /\ reqs[r].since < Len(regLog)
    /\ providers[t].fn \in {"inc", "opt"}
    /\ providers[t].arg \notin localTokens
    /\ regLog # <<>>
    /\ Last(regLog).token = providers[t].arg
    /\ Last(regLog).fn = "value"
\* the value of t's factory for the registered value of its dependency
Recomputed(t) ==
    IF providers[t].fn = "inc" THEN Plus1(registry[providers[t].arg].k)
    ELSE registry[providers[t].arg].k
Observes(r) ==
    /\ r <= Len(reqs)
    /\ providers[reqs[r].token].fn \in {"inc", "opt"}
    /\ \E i \in 1..Len(reqs[r].calls) : reqs[r].calls[i] = Recomputed(reqs[r].token)

\* C4 (reactive update): a standing subscriber of a token whose dependency got a
\* new registration is eventually called with the value recomputed from it, unless
\* it un-subscribes or the injector is disposed first.
C4_ReactiveUpdate ==
    \A r \in 1..MaxRequests :
        (Subscribed(r) /\ DepRegistered(r, reqs[r].token))
            ~> (~Subscribed(r) \/ Observes(r))

\* request r exists after this step and its add() ran in this step
AddRan(r) ==
    /\ r <= Len(reqs')
    /\ reqs'[r].state = "added"
    /\ r <= Len(reqs) => reqs[r].state = "waiting"
\* the token's current value when add() of request r runs: the value its Notifier
\* holds, or, when the injector has no Notifier for it, the value the request's
\* resolution produced
Current(r) ==
    LET token == reqs'[r].token
    IN IF notifiers'[token] # 0 THEN nheap'[notifiers'[token]].value
       ELSE comps[reqs'[r].wait].val

\* C5 (one-shot delivery): the callback of a request with subscribe = false is
\* invoked when its add() runs, once, with the token's current value; it gets
\* no un-subscribe handle, is in no Notifier's subscriber list, leaves the
\* subscriber count as it was, and is not invoked again by any later step.
C5_OneShot ==
    [][\A r \in 1..Len(reqs') :
          ~reqs'[r].subscribe
          => /\ ~reqs'[r].handle
             /\ \A n \in 1..Len(nheap') : r \notin SeqToSet(nheap'[n].subs)
             /\ AddRan(r) => /\ reqs'[r].calls = <<Current(r)>>
                             /\ subscriberCounts' = subscriberCounts
             /\ ~AddRan(r) => reqs'[r].calls = IF r <= Len(reqs) THEN reqs[r].calls
                                               ELSE <<>>]_vars

\* provider p declares a non-optional dep for which the injector has no provider
MissingRequired(p) ==
    \E i \in 1..Len(p.deps) :
        ~p.deps[i].optional /\ ~HasProvider(providers[p.deps[i].token])
\* the resolution of request r was rejected
Failed(r) == reqs[r].wait # 0 /\ comps[reqs[r].wait].phase = "rejected"

\* C6 (missing required dependency): a request for a token whose factory provider
\* declares a required dep without provider gets a rejected promise and the factory
\* is not invoked; a request whose resolution was rejected stays as it is, its
\* callback never invoked.
C6_MissingRequired ==
    [][/\ /\ Dispatched
          /\ HasProvider(providers[Last(reqs').token])
          /\ MissingRequired(providers[Last(reqs').token])
          => /\ Last(reqs').state = "waiting"
             /\ Last(reqs').wait # 0
             /\ comps'[Last(reqs').wait].phase = "rejected"
             /\ factoryCalls'[Last(reqs').token] = factoryCalls[Last(reqs').token]
       /\ \A r \in 1..Len(reqs) :
             Failed(r) => /\ reqs[r].calls = <<>>
                          /\ reqs[r].state = "waiting"
                          /\ reqs'[r] = reqs[r]
                          /\ comps'[reqs[r].wait] = comps[reqs[r].wait]]_vars
C6_Witness ==
    \E r \in 1..Len(reqs) :
        /\ Failed(r)
        /\ comps[reqs[r].wait].token = reqs[r].token
        /\ comps[reqs[r].wait].waits = {}
        /\ ~comps[reqs[r].wait].prov.deps[1].optional
        /\ factoryCalls[reqs[r].token] = 0
        /\ reqs[r].calls = <<>>
        /\ regLog # <<>>
        /\ jobs > 0

\* provider p is a factory reading injectOptional of an optional dep without provider
MissingOptional(p) ==
    /\ p.fn = "opt"
    /\ ~HasProvider(providers[p.arg])
    /\ \A i \in 1..Len(p.deps) :
          HasProvider(providers[p.deps[i].token]) \/ p.deps[i].optional

\* C7 (missing optional dependency): a request for a token whose factory declares
\* an optional dep without provider invokes the factory, which reads undefined from
\* injectOptional; the promise is not rejected, and once it is fulfilled the
\* requester is delivered the factory's result.
C7_MissingOptional ==
    [][/\ /\ Dispatched
          /\ ~Defined(instances[Last(reqs').token])
          /\ HasProvider(providers[Last(reqs').token])
          /\ MissingOptional(providers[Last(reqs').token])
          => /\ factoryCalls'[Last(reqs').token] = factoryCalls[Last(reqs').token] + 1
             /\ Last(reqs').state = "waiting"
             /\ Last(reqs').wait = Len(comps')
             /\ Last(comps').phase = "factory"
             /\ Last(comps').aw = Undef
       /\ \A id \in 1..Len(comps) :
             comps[id].prov.fn = "opt" /\ comps[id].aw = Undef
             => /\ comps'[id].phase # "rejected"
                /\ comps'[id].phase = "fulfilled" => comps'[id].val = Undef
       /\ \A r \in 1..Len(reqs) :
             /\ reqs[r].state = "waiting"
             /\ reqs'[r].state = "added"
             /\ comps[reqs[r].wait].prov.fn = "opt"
             /\ comps[reqs[r].wait].aw = Undef
             /\ ~HasProvider(providers[comps[reqs[r].wait].prov.arg])
             => reqs'[r].calls = <<Undef>>]_vars
C7_Witness ==
    \E r \in 1..Len(reqs) :
        /\ reqs[r].state = "added"
        /\ reqs[r].wait # 0
        /\ comps[reqs[r].wait].prov.fn = "opt"
        /\ comps[reqs[r].wait].aw = Undef
        /\ comps[reqs[r].wait].phase = "fulfilled"
        /\ ~HasProvider(providers[comps[reqs[r].wait].prov.arg])
        /\ reqs[r].calls = <<Undef>>
        /\ factoryCalls[reqs[r].token] = 1

\* this step is the call of disposeAll
Disposing == disposeCalled' /\ ~disposeCalled

\* C8 (disposal): the call of disposeAll hands every cached instance whose provider
\* defines dispose to that dispose, once, and leaves the instance cache, every
\* Notifier's subscriber list and both maps of the dependency graph empty, with the
\* injector's DestroyRef fired.
C8_Disposal ==
    [][Disposing
       => /\ \A t \in Tokens :
                Cached(t) /\ providers[t].dispose # "none"
                => disposeLog'[t] = Append(disposeLog[t], instances[t])
          /\ \A t \in Tokens : instances'[t] = Absent
          /\ instOrder' = <<>>
          /\ \A n \in 1..Len(nheap') : nheap'[n].subs = <<>>
          /\ \A t \in Tokens : dependents'[t] = <<>> /\ dependencies'[t] = {}
          /\ destroyed' = destroyed + 1]_vars

\* C9 (dispose on eviction): a step that drops or replaces the cached instance of a
\* token whose provider defines dispose hands that instance to dispose, once.
C9_DisposeOnEviction ==
    [][\A t \in Tokens :
          /\ Cached(t)
          /\ providers[t].dispose # "none"
          /\ instances'[t] # instances[t]
          => disposeLog'[t] = Append(disposeLog[t], instances[t])]_vars

\* token t declares a dep that declares t
Cyclic(t) ==
    /\ HasProvider(providers[t])
    /\ \E i \in 1..Len(providers[t].deps) :
          LET d == providers[providers[t].deps[i].token]
          IN HasProvider(d) /\ \E j \in 1..Len(d.deps) : d.deps[j].token = t

\* C10 (cycle detection): a request for a token on a dependency cycle ends with an
\* error that names the cycle, not with the call stack exhausted.
C10_CycleDetected ==
    [][Dispatched /\ Cyclic(Last(reqs').token)
       => /\ Last(reqs').calls = <<>>
          /\ thrown'.tag = "DependencyCycle"]_vars

\* C11 (unclaimed request): a request for a token without provider is ignored: it
\* is not claimed, raises no error, and leaves the cache, the notifiers, the
\* dependency graph and the subscriber counts as they were; the callback of an
\* ignored request is never invoked.
C11_Unclaimed ==
    [][/\ Dispatched /\ ~HasProvider(providers[Last(reqs').token])
          => /\ Last(reqs').state = "ignored"
             /\ Last(reqs').calls = <<>>
             /\ thrown' = Absent
             /\ UNCHANGED <<instances, instOrder, notifiers, nheap, dependents,
                            dependencies, subscriberCounts, comps, factoryCalls>>
       /\ \A r \in 1..Len(reqs) :
             reqs[r].state = "ignored" => reqs'[r] = reqs[r] /\ reqs[r].calls = <<>>]_vars
C11_Witness ==
    \E r \in 1..Len(reqs) :
        /\ reqs[r].state = "ignored"
        /\ reqs[r].calls = <<>>
        /\ Len(reqs) > r
        /\ HasProvider(providers[reqs[r + 1].token])
        /\ reqs[r + 1].calls # <<>>

\* the subscriber count of token t as a number, 0 when the Map has no entry
Count(c) == IF c.tag = "num" THEN c.n ELSE 0
\* request r's un-subscribe handle is invoked in this step
Unsubscribing(r) == reqs'[r].unsubs = reqs[r].unsubs + 1

\* C12 (subscriber count floor): add() of a subscribing request raises the token's
\* count by one; an invocation of the un-subscribe handle lowers it by one, not
\* below 0, and takes the callback out of the Notifier; the count is always absent
\* or a non-negative integer.
C12_CountFloor ==
    [][/\ \A r \in 1..Len(reqs') :
             AddRan(r) /\ reqs'[r].subscribe
             => Count(subscriberCounts'[reqs'[r].token])
                    = Count(subscriberCounts[reqs'[r].token]) + 1
       /\ \A r \in 1..Len(reqs) :
             Unsubscribing(r)
             => /\ Count(subscriberCounts'[reqs[r].token])
                       = IF Count(subscriberCounts[reqs[r].token]) > 0
                         THEN Count(subscriberCounts[reqs[r].token]) - 1 ELSE 0
                /\ r \notin SeqToSet(nheap'[reqs[r].notifier].subs)
       /\ \A t \in Tokens :
             /\ subscriberCounts'[t].tag \in {"num", "absent"}
             /\ subscriberCounts'[t].n >= 0]_vars

\* the factory of token t is invoked in this step
RanFactory(t) == factoryCalls'[t] > factoryCalls[t]
\* after the step every declared dep of t that has a provider is settled in the cache
DepsSettled(t) ==
    \A i \in 1..Len(providers'[t].deps) :
        HasProvider(providers'[providers'[t].deps[i].token])
        => instances'[providers'[t].deps[i].token].tag \notin {"promise", "absent"}
\* promise id enters phase "factory" in this step: its factory was invoked
Entered(id) ==
    /\ comps'[id].phase = "factory"
    /\ id <= Len(comps) => comps[id].phase = "deps"

\* C13 (dependencies settle before the factory runs): a step that invokes the
\* factory of a token with declared deps leaves every dep that has a provider
\* settled in the cache; a computation that found a pending dep is created without
\* invoking the factory; what inject(dep) hands the factory is the dep's cached
\* value, and the factory's result is computed from it.
C13_DepsFirst ==
    [][/\ \A t \in Tokens :
             RanFactory(t) /\ providers'[t].deps # <<>> => DepsSettled(t)
       /\ \A id \in 1..Len(comps') :
             /\ id > Len(comps) /\ comps'[id].phase = "deps"
                => /\ factoryCalls'[comps'[id].token] = factoryCalls[comps'[id].token]
                   /\ \E d \in comps'[id].waits : comps'[d].phase # "fulfilled"
             /\ Entered(id) /\ comps'[id].prov.fn \in {"inc", "opt"}
                          /\ HasProvider(providers'[comps'[id].prov.arg])
                => comps'[id].aw = instances'[comps'[id].prov.arg]
             /\ /\ id <= Len(comps)
                /\ comps[id].phase # "fulfilled"
                /\ comps'[id].phase = "fulfilled"
                /\ comps'[id].prov.fn = "inc"
                => comps'[id].val = Plus1(comps'[id].aw)]_vars
C13_Witness ==
    \E id \in 1..Len(comps) :
        /\ comps[id].waits # {}
        /\ comps[id].phase = "fulfilled"
        /\ comps[id].prov.fn = "inc"
        /\ comps[id].aw = Num(1)
        /\ comps[id].val = Num(2)
        /\ \E r \in 1..Len(reqs) : reqs[r].calls # <<>>

\* what the factory of promise id got from its await, after the step
Got(id) ==
    IF IsPromise(comps'[id].aw) THEN comps'[comps'[id].aw.n].val ELSE comps'[id].aw

\* C13, as the code has it: a computation whose deps all resolved synchronously
\* invokes the factory in the same step, with those deps settled in the cache; one
\* that found a pending dep invokes no factory when it is created, and invokes it
\* in a step before which every promise it collected was fulfilled; inject(dep)
\* resolves dep anew at that time, and the result is made from the value awaited.
C13_DepsAwaited ==
    [][\A id \in 1..Len(comps') :
          /\ id > Len(comps) /\ comps'[id].phase = "factory"
                             /\ comps'[id].prov.deps # <<>>
             => /\ RanFactory(comps'[id].token)
                /\ DepsSettled(comps'[id].token)
          /\ id > Len(comps) /\ comps'[id].phase = "deps"
             => /\ factoryCalls'[comps'[id].token] = factoryCalls[comps'[id].token]
                /\ \A d \in comps'[id].waits : comps'[d].phase # "fulfilled"
          /\ id <= Len(comps) /\ comps[id].phase = "deps"
                              /\ comps'[id].phase \in {"factory", "fulfilled"}
             => /\ RanFactory(comps[id].token)
                /\ \A d \in comps[id].waits : comps[d].phase = "fulfilled"
          /\ /\ id <= Len(comps)
             /\ comps[id].phase = "factory"
             /\ comps'[id].phase = "fulfilled"
             /\ comps'[id].prov.fn = "inc"
             => comps'[id].val = Plus1(Got(id))]_vars

\* provider p declares token d in its deps
Declares(p, d) == \E i \in 1..Len(p.deps) : p.deps[i].token = d

\* C14 (injectSync): a request for a token whose factory returns injectSync(d) is
\* answered with d's cached value when d is declared in deps and resolved, and
\* ends with an error, the callback not invoked, when d is not declared.
C14_InjectSync ==
    [][Dispatched /\ providers[Last(reqs').token].fn = "sync"
       => LET p == providers[Last(reqs').token]
          IN IF Declares(p, p.arg) /\ instances[p.arg].tag = "num"
             THEN /\ Last(reqs').calls = <<instances[p.arg]>>
                  /\ thrown' = Absent
             ELSE /\ Last(reqs').state = "threw"
                  /\ Last(reqs').calls = <<>>
                  /\ IsThrow(thrown')]_vars

\* a destroy() call is the step
Destroying == dref'.destroys = dref.destroys + 1
\* the callbacks whose turn comes while this destroy() runs: those in the Set,
\* and callback 1 when callback 3, in the Set, registers it
Due == SeqToSet(dref.callbacks) \cup (IF 3 \in SeqToSet(dref.callbacks) THEN {1} ELSE {})

\* C15: destroy() invokes every callback registered so far exactly once and
\* then empties the set; a further destroy() with no new registrations invokes
\* nothing; so across any number of destroy() calls every callback has run
\* once for each time it was registered.
C15_DestroyOnce ==
    [][/\ Destroying =>
           /\ \A c \in CbIds :
                  dref'.runs[c] = dref.runs[c] + (IF c \in Due THEN 1 ELSE 0)
           /\ dref'.callbacks = <<>>
           /\ dref.callbacks = <<>> => dref'.runs = dref.runs
       /\ \A c \in CbIds :
              dref'.runs[c] + (IF c \in SeqToSet(dref'.callbacks) THEN 1 ELSE 0)
                  = dref'.adds[c]]_vars

\* destroy() was called three times after callbacks 1 and 2 were registered
\* once: each has run once
C15_Witness ==
    /\ dref.destroys = MaxDestroys
    /\ dref.adds = [c \in CbIds |-> IF c = 3 THEN 0 ELSE 1]
    /\ dref.runs = dref.adds

\* a register call is the step
RegistryRegistering == preg'.registers = preg.registers + 1
\* the last provider for token t in the argument list ps, or what the map held
LatestFor(ps, t, before) ==
    IF \E i \in 1..Len(ps) : ps[i].token = t
    THEN ps[CHOOSE i \in 1..Len(ps) :
                /\ ps[i].token = t
                /\ \A k \in (i + 1)..Len(ps) : ps[k].token # t]
    ELSE before

\* C16: register(p1..pn) leaves in the map the most recent provider of each
\* token, and invokes, for each provider in argument order, every listener
\* registered so far in registration order, for overwrites as for first
\* registrations.
C16_Register ==
    [][RegistryRegistering =>
          LET ps == preg'.args
              ls == preg.listeners
          IN  /\ \A t \in Tokens : preg'.map[t] = LatestFor(ps, t, preg.map[t])
              /\ Len(preg'.heard) = Len(preg.heard) + Len(ps) * Len(ls)
              /\ SubSeq(preg'.heard, 1, Len(preg.heard)) = preg.heard
              /\ \A i \in 1..Len(ps) : \A j \in 1..Len(ls) :
                     preg'.heard[Len(preg.heard) + (i - 1) * Len(ls) + j]
                         = [listener |-> ls[j], provider |-> ps[i]]]_vars

\* two listeners heard a provider and then the provider that overwrote it
C16_Witness ==
    /\ preg.registers = 2
    /\ Len(preg.listeners) = 2
    /\ \E i, k \in 1..Len(preg.heard) :
           /\ i < k
           /\ preg.heard[i].listener = preg.heard[k].listener
           /\ preg.heard[i].provider.token = preg.heard[k].provider.token
           /\ preg.heard[i].provider # preg.heard[k].provider
           /\ preg.map[preg.heard[k].provider.token] = preg.heard[k].provider

\* token u changes in this step: a provider is registered for it, or a value is
\* stored for it in the cache
Changes(u) ==
    \/ Registering /\ Last(regLog').token = u
    \/ /\ u \in SeqToSet(instOrder')
       /\ ~IsPromise(instances'[u])
       /\ u \in SeqToSet(instOrder) => instances'[u] # instances[u]
\* token t, settled in the cache with a value that a request would be served
\* from, depends on u and has no subscriber left
Unwatched(t, u) ==
    /\ t # u
    /\ t \in SeqToSet(dependents[u])
    /\ Cached(t)
    /\ Defined(instances[t])
    /\ Count(subscriberCounts[t]) = 0

\* C17 (recompute gating): when an upstream token changes, a dependent whose
\* subscriber count is not above zero keeps its cached value and its factory is
\* not invoked.
C17_RecomputeGating ==
    [][\A t, u \in Tokens :
          Unwatched(t, u) /\ Changes(u)
          => instances'[t] = instances[t] /\ ~RanFactory(t)]_vars

\* a provider was registered after construction for token u, not owned locally
LateRegistered(u) ==
    /\ u \notin localTokens
    /\ \E i \in 1..Len(regLog) : regLog[i].token = u
\* the newest provider registered for token u
LastRegistered(u) ==
    regLog[CHOOSE i \in 1..Len(regLog) :
               /\ regLog[i].token = u
               /\ \A k \in (i + 1)..Len(regLog) : regLog[k].token # u]
\* provider p yields its value in the call that computes it
Immediate(p) == p.fn \in {"value", "konst"}
\* the step registers such a provider for a token the injector does not own locally
Adopting ==
    Registering /\ Last(regLog').token \notin localTokens /\ Immediate(Last(regLog'))
\* request r is a subscriber of token u when the step begins
SubscriberOf(r, u) == Subscribed(r) /\ reqs[r].token = u

\* C18 (late registration): a registration for a token not owned locally makes
\* the injector adopt the provider and drop the cached value; with subscribers
\* the token is recomputed at once and they are called with the new value; and
\* every request dispatched after it is answered with the new provider's value
\* (stated for providers that yield their value in the call that computes it).
C18_LateRegistration ==
    [][/\ Adopting =>
           LET p == Last(regLog')
           IN  /\ providers'[p.token] = p
               /\ p.token \in SeqToSet(instOrder') => instances'[p.token] = p.k
               /\ \A r \in 1..Len(reqs) :
                      SubscriberOf(r, p.token)
                      => /\ instances'[p.token] = p.k
                         /\ Last(reqs'[r].calls) = p.k
       /\ \A u \in Tokens :
              /\ Dispatched
              /\ Last(reqs').token = u
              /\ LateRegistered(u)
              /\ Immediate(LastRegistered(u))
              => /\ Last(reqs').state = "added"
                 /\ Last(reqs').calls = <<LastRegistered(u).k>>]_vars

\* C19 (dependency graph inverse): before disposal, B is in dependencies[A]
\* exactly when A is in dependents[B].
C19_InverseEdges ==
    ~disposeCalled
    => \A a, b \in Tokens : b \in dependencies[a] <=> a \in SeqToSet(dependents[b])

\* the step dispatches a request for token t, after an earlier request for t
\* failed on a required dep that had no provider and has one by now
Retrying(t) ==
    /\ Dispatched
    /\ Last(reqs').token = t
    /\ HasProvider(providers[t])
    /\ \E i \in 1..Len(providers[t].deps) :
           /\ ~providers[t].deps[i].optional
           /\ ~HasProvider(Constructed(world)[providers[t].deps[i].token])
    /\ ~MissingRequired(providers[t])
    /\ \E r \in 1..Len(reqs) : reqs[r].token = t /\ Failed(r)

\* C20 (retry after failure): a request for T re-issued after the missing
\* required dep was registered is not answered with a rejected resolution.
C20_Retry ==
    [][\A t \in Tokens :
          Retrying(t)
          => /\ Last(reqs').state \in {"waiting", "added"}
             /\ Last(reqs').wait # 0 => comps'[Last(reqs').wait].phase # "rejected"]_vars

\* disposeAll is called while the cache holds an instance whose dispose raises
DisposeFails ==
    /\ Disposing
    /\ \E t \in SeqToSet(instOrder) : providers[t].dispose = "throws"

\* C21 (dispose isolation): a dispose callback that raises during disposeAll
\* keeps neither the dispose callbacks of the other cached instances from
\* running, nor the cache and the notifiers from being cleared, nor the host
\* listener from being removed, nor the DestroyRef from firing.
C21_DisposeIsolation ==
    [][DisposeFails
       => /\ \A u \in SeqToSet(instOrder) :
                providers[u].dispose = "ok"
                => disposeLog'[u] = Append(disposeLog[u], instances[u])
          /\ instOrder' = <<>>
          /\ \A u \in Tokens : instances'[u] = Absent /\ notifiers'[u] = 0
          /\ \A n \in 1..Len(nheap') : nheap'[n].subs = <<>>
          /\ ~listening'
          /\ destroyed' = destroyed + 1]_vars

\* the step registers a provider for token d, not owned locally, that subscribed
\* token t declares as a dep
ChangeUnder(t, d) ==
    /\ Registering
    /\ Last(regLog').token = d
    /\ d \notin localTokens
    /\ t # d
    /\ HasProvider(providers[t])
    /\ \E i \in 1..Len(providers[t].deps) : providers[t].deps[i].token = d
    /\ t \in SeqToSet(dependents[d])
    /\ Positive(subscriberCounts[t])
\* the computations of token t that the step starts
Started(t) == {id \in (Len(comps) + 1)..Len(comps') : comps'[id].token = t}

\* C22 (one recompute per change): the registration of a dep of a subscribed
\* token starts one computation of that token and invokes its factory once.
C22_OneRecompute ==
    [][\A t, d \in Tokens :
          ChangeUnder(t, d)
          => /\ Cardinality(Started(t)) = 1
             /\ factoryCalls'[t] = factoryCalls[t] + 1]_vars

\* promise id, started under a provider that was replaced since, is fulfilled in
\* this step, while the cache holds the value that the token's present provider,
\* a constant or a synchronous factory, was computed to after the replacement
Superseded(id) ==
    /\ comps[id].phase # "fulfilled"
    /\ comps'[id].phase = "fulfilled"
    /\ ~disposeCalled
    /\ comps[id].prov # providers[comps[id].token]
    /\ Immediate(providers[comps[id].token])
    /\ comps[id].token \in SeqToSet(instOrder)
    /\ instances[comps[id].token] = providers[comps[id].token].k

\* C23 (no stale overwrite): the settlement of a superseded computation leaves
\* the cached value of the newer computation in place and delivers nothing to
\* the token's subscribers.
C23_NoStaleOverwrite ==
    [][\A id \in 1..Len(comps) :
          Superseded(id)
          => /\ instances'[comps[id].token] = instances[comps[id].token]
             /\ \A r \in 1..Len(reqs) :
                   SubscriberOf(r, comps[id].token) => reqs'[r].calls = reqs[r].calls]_vars

\* C24 (quiescence after disposal): once disposeAll has returned, no step
\* invokes a factory, puts an entry into the instance cache, or invokes a
\* consumer callback.
C24_Quiescence ==
    [][disposeCalled /\ ~listening
       => /\ factoryCalls' = factoryCalls
          /\ instOrder' = <<>>
          /\ \A r \in 1..Len(reqs) : reqs'[r].calls = reqs[r].calls]_vars

\* token a is made from token b, and b from the registry token c
Chain(a, b, c) ==
    /\ providers[a].fn = "inc" /\ providers[a].arg = b
    /\ providers[b].fn = "inc" /\ providers[b].arg = c
    /\ c \notin localTokens
\* request r is a standing subscriber of a token two steps above c, the token in
\* between has no subscriber, and a constant was registered for c after r was added
ChangedBelow(r, b, c) ==
    /\ Subscribed(r)
    /\ Chain(reqs[r].token, b, c)
    /\ Count(subscriberCounts[b]) = 0
    /\ reqs[r].since < Len(regLog)
    /\ Last(regLog).token = c
    /\ Last(regLog).fn = "value"
\* r was called with its token's value made from the registered value of c
ObservesBelow(r, c) ==
    \E i \in 1..Len(reqs[r].calls) : reqs[r].calls[i] = Plus1(Plus1(registry[c].k))

\* C25 (transitive propagation): a standing subscriber of A, where A declares B
\* and B declares C and B has no subscriber, is eventually called with the value
\* of A recomputed from a newly registered C, unless it un-subscribes or the
\* injector is disposed first.
C25_Transitive ==
    \A r \in 1..MaxRequests : \A b, c \in Tokens :
        ChangedBelow(r, b, c) ~> (~Subscribed(r) \/ ObservesBelow(r, c))
====
